---------------------------- MODULE Spec2Model ----------------------------
(***************************************************************************)
(* The SRE adaptive-throttling circuit breaker of sre.go.                  *)
(*                                                                         *)
(* State: the breaker's fields (stat, rnd, dropProba, isr, ignoreRequests),*)
(* the clock the window reads (window.Now), and, per goroutine, the frame  *)
(* of its Allow call (pc, total, accepts, dr, held, ret).  A frame is      *)
(* there to be read in the state its call returns in (pc = "done"); the    *)
(* next step of the program retires it.                                    *)
(*                                                                         *)
(* Numbers.  isr is a float64 in the code; here it is the exact fraction   *)
(* num/den.  The values used are dyadic (1/4, 1/2, 1), so float64(accepts) *)
(* / isr is exact for the counts reached and every float comparison of the *)
(* code agrees with the comparison of fractions written here.  The drop    *)
(* rate dr and the random sample are fractions too.                        *)
(*                                                                         *)
(* The rolling window is github.com/yimi-go/window, a dependency whose     *)
(* source is not part of this repository: it is modelled from the contract *)
(* the specification gives for it (time-bucketed counters, Add, Sum and    *)
(* Count over the trailing span, rotation by the clock alone).             *)
(***************************************************************************)
EXTENDS Integers, Sequences, FiniteSets, TLC

\* ------------------------------------------------------------------ bounds

\* The clock runs from 0 to MaxNow ticks.
MaxNow == 4
\* At most MaxMarks calls of MarkSuccess/MarkFailed in one run.
MaxMarks == 3
\* The sampler draws k/SampleDen, k in 0..SampleDen-1: a grid of [0,1).
SampleDen == 5
\* Goroutines calling the breaker concurrently.
NumGoroutines == 2
\* The concurrent runs: the clock runs to ConcMaxNow, with at most
\* ConcMaxMarks calls of MarkSuccess/MarkFailed.
ConcMaxNow == 2
ConcMaxMarks == 2

\* The successes a run of successes holds at most: as many as the marks
\* before it, which outweighs them at every isr up to 1/2, and one more.
MaxSuccessRun == MaxMarks + 1

\* Bounds of the runs that follow New for each list of options.
MaxOptions == 2
ConfigMaxNow == 1
ConfigMaxMarks == 1

\* Option values New is called with.
IsrValues == {[num |-> 1, den |-> 4], [num |-> 1, den |-> 2], [num |-> 1, den |-> 1]}
IgnoreRequestValues == {0, 2}
BucketValues == {2}
BucketDurationValues == {1, 2}
\* The drop policies a breaker runs with: the one New installs, and the two
\* constant ones tests inject.
Policies == {"default", "alwaysFalse", "alwaysTrue"}

Goroutines == 1..NumGoroutines
\* The goroutine of a single-threaded caller.
Main == 1
Samples == {[num |-> k, den |-> SampleDen] : k \in 0..(SampleDen - 1)}

Max(a, b) == IF a >= b THEN a ELSE b
Min(a, b) == IF a <= b THEN a ELSE b

\* ------------------------------------------------------------------ state

VARIABLES
    stat,            \* breaker.stat: the rolling window
    rnd,             \* breaker.rnd: the generators resting in the sync.Pool
    dropProba,       \* breaker.dropProba: the drop policy
    isr,             \* breaker.isr
    ignoreRequests,  \* breaker.ignoreRequests
    now,             \* window.Now(), in ticks since the window was made
    seeded,          \* generators the pool's New has made so far
    pc,              \* per goroutine: where its Allow call stands
    total,           \* per goroutine: Allow's local total
    accepts,         \* per goroutine: Allow's local accepts
    dr,              \* per goroutine: Allow's local dr
    held,            \* per goroutine: the generator Allow borrowed
    ret,             \* per goroutine: what its last Allow returned
    nSuccess,        \* MarkSuccess calls so far
    nFailed,         \* MarkFailed calls so far
    idle,            \* ticks since the last Mark call, up to the window span
    opts,            \* the options New was called with
    opt              \* New's options struct once the options are applied

config == <<dropProba, isr, ignoreRequests, opts, opt>>
frames == <<pc, total, accepts, dr, held, ret>>
marks == <<nSuccess, nFailed>>
vars == <<stat, rnd, config, now, seeded, frames, marks, idle>>

NoRand == [kind |-> "none", id |-> 0]
NoRate == [num |-> 0, den |-> 1]

\* ------------------------------------------------------- the rolling window

\* window.NewWindow(buckets, requireBucketDuration): every bucket empty.
NewWindow(buckets, d) ==
    [size |-> buckets, dur |-> d,
     slot |-> [i \in 0..(buckets - 1) |-> [epoch |-> 0, count |-> 0, sum |-> 0]]]

\* The bucket the instant t falls in.
Epoch(w, t) == t \div w.dur

\* The span of the whole window, in ticks.
Span(w) == w.size * w.dur

\* A bucket contributes while it is one of the trailing w.size buckets.
Visible(w, t, i) == w.slot[i].epoch > Epoch(w, t) - w.size

\* Window.Add(v): one sample of value v into the bucket of instant t; a
\* bucket left over from an earlier round is emptied first.
Add(w, t, v) ==
    LET e == Epoch(w, t)
        i == e % w.size
        old == w.slot[i]
        cur == IF old.epoch = e THEN old ELSE [epoch |-> e, count |-> 0, sum |-> 0]
    IN  [w EXCEPT !.slot[i] = [epoch |-> e, count |-> cur.count + 1, sum |-> cur.sum + v]]

RECURSIVE SumOver(_, _, _, _)
SumOver(w, t, i, f) ==
    IF i = w.size THEN 0
    ELSE (IF Visible(w, t, i) THEN w.slot[i][f] ELSE 0) + SumOver(w, t, i + 1, f)

\* Window.Aggregation(0).Count() and .Sum() at instant t.
Count(w, t) == SumOver(w, t, 0, "count")
Sum(w, t) == SumOver(w, t, 0, "sum")

\* ------------------------------------------------------------ configuration

DefaultOptions ==
    [isr |-> [num |-> 1, den |-> 2], ignoreRequests |-> 100, buckets |-> 10,
     requireBucketDuration |-> 268435456]

WithInspirationSuccessRate(o, v) == [o EXCEPT !.isr = v]
WithIgnoreRequest(o, ir) == [o EXCEPT !.ignoreRequests = ir]
WithRequireBucketDuration(o, d) == [o EXCEPT !.requireBucketDuration = d]
WithBuckets(o, buckets) == [o EXCEPT !.buckets = buckets]

\* The options callers pass to New, each the field its closure writes and
\* the value it writes there.
Options ==
    {[field |-> "isr", value |-> v] : v \in IsrValues}
        \cup {[field |-> "ignoreRequests", value |-> v] : v \in IgnoreRequestValues}
        \cup {[field |-> "buckets", value |-> v] : v \in BucketValues}
        \cup {[field |-> "requireBucketDuration", value |-> v] : v \in BucketDurationValues}

\* o(&opt) for the option o.
ApplyOption(o, f) ==
    CASE f.field = "isr" -> WithInspirationSuccessRate(o, f.value)
      [] f.field = "ignoreRequests" -> WithIgnoreRequest(o, f.value)
      [] f.field = "buckets" -> WithBuckets(o, f.value)
      [] f.field = "requireBucketDuration" -> WithRequireBucketDuration(o, f.value)

\* The loop with the options taken from the last to the first.
RECURSIVE ApplyOptionsLastFirst(_, _)
ApplyOptionsLastFirst(o, fs) ==
    IF fs = <<>> THEN o
    ELSE ApplyOption(ApplyOptionsLastFirst(o, Tail(fs)), Head(fs))

\* for _, o := range opts { o(&opt) }
RECURSIVE ApplyOptions(_, _)
ApplyOptions(o, fs) ==
    IF fs = <<>> THEN o
    ELSE ApplyOptions(ApplyOption(o, Head(fs)), Tail(fs))

\* The pool's New handing out the source instead of the generator.
PoolNewSource(n) == [kind |-> "rand.Source", id |-> n]

\* The generator the pool's New makes: a *rand.Rand.
PoolNew(n) == [kind |-> "*rand.Rand", id |-> n]

\* New(opts...): the breaker built from the options.
New(o) ==
    [stat |-> NewWindow(o.buckets, o.requireBucketDuration),
     rnd |-> {},
     dropProba |-> "default",
     ignoreRequests |-> o.ignoreRequests,
     isr |-> o.isr]

\* ------------------------------------------------------------ the decision

\* summary adding up every bucket the window holds, expired ones too.
RECURSIVE RawOver(_, _, _)
RawOver(w, i, f) == IF i = w.size THEN 0 ELSE w.slot[i][f] + RawOver(w, i + 1, f)

summaryAllBuckets(w, t) ==
    [success |-> RawOver(w, 0, "sum"), total |-> RawOver(w, 0, "count")]

\* summary(): the two aggregate reads, taken at one instant.
summary(w, t) == [success |-> Sum(w, t), total |-> Count(w, t)]

\* Guard admitting at the target rate too.
GuardRateInclusive(a, t) == t < ignoreRequests \/ t * isr.num <= a * isr.den

\* Guard without the low-volume floor.
GuardNoFloor(a, t) == t * isr.num < a * isr.den

\* Guard with the floor compared by <=.
GuardFloorInclusive(a, t) == t <= ignoreRequests \/ t * isr.num < a * isr.den

\* total < b.ignoreRequests || float64(total) < float64(accepts)/b.isr
Guard(a, t) == t < ignoreRequests \/ t * isr.num < a * isr.den

\* DropRate dividing by total instead of total+1.
DropRateNoPlusOne(a, t) ==
    [num |-> Max(0, t * isr.num - a * isr.den), den |-> t * isr.num]

\* DropRate clamped with math.Min in place of math.Max.
DropRateMin(a, t) ==
    [num |-> Min(0, t * isr.num - a * isr.den), den |-> (t + 1) * isr.num]

\* dr := math.Max(0, (float64(total)-inspirationRequests)/float64(total+1))
DropRate(a, t) ==
    [num |-> Max(0, t * isr.num - a * isr.den), den |-> (t + 1) * isr.num]

\* The default policy comparing by <=.
defaultDropProbaInclusive(sample, proba) ==
    sample.num * proba.den <= proba.num * sample.den

\* The policy New installs: r.Float64() < proba.
defaultDropProba(sample, proba) == sample.num * proba.den < proba.num * sample.den

\* Allow comparing the sample itself, whatever policy is installed.
DropProbaHardCoded(sample, proba) == sample.num * proba.den < proba.num * sample.den

\* b.dropProba(rnd, dr) under the policy installed.
DropProba(sample, proba) ==
    CASE dropProba = "default" -> defaultDropProba(sample, proba)
      [] dropProba = "alwaysFalse" -> FALSE
      [] dropProba = "alwaysTrue" -> TRUE

\* What Allow returns on the counts (a, t) when the sampler draws sample.
Verdict(a, t, sample) ==
    IF Guard(a, t) THEN "nil"
    ELSE IF DropProba(sample, DropRate(a, t)) THEN "ErrNotAllowed" ELSE "nil"

\* ------------------------------------------------------------------- Init

\* New(opts...): the breaker and its first state, the drop policy being p.
NewOver(fs, p) ==
    LET o == ApplyOptions(DefaultOptions, fs)
        b == New(o)
    IN  /\ opts = fs
        /\ opt = o
        /\ stat = b.stat
        /\ rnd = b.rnd
        /\ dropProba = p
        /\ isr = b.isr
        /\ ignoreRequests = b.ignoreRequests
        /\ now = 0
        /\ seeded = 0
        /\ pc = [g \in Goroutines |-> "idle"]
        /\ total = [g \in Goroutines |-> 0]
        /\ accepts = [g \in Goroutines |-> 0]
        /\ dr = [g \in Goroutines |-> NoRate]
        /\ held = [g \in Goroutines |-> NoRand]
        /\ ret = [g \in Goroutines |-> "none"]
        /\ nSuccess = 0
        /\ nFailed = 0
        /\ idle = 0

\* The breaker New returns when it is given a bucket duration, a bucket
\* number, an ignoreRequests and an isr, running with one of the drop
\* policies of P.
InitOver(P) ==
    \E i \in IsrValues \cup {DefaultOptions.isr}, ir \in IgnoreRequestValues,
       n \in BucketValues, d \in BucketDurationValues, p \in P :
        NewOver(<<[field |-> "requireBucketDuration", value |-> d],
                  [field |-> "buckets", value |-> n],
                  [field |-> "ignoreRequests", value |-> ir],
                  [field |-> "isr", value |-> i]>>, p)

Init == InitOver(Policies)

\* ---------------------------------------------------------------- actions

\* The frames of the calls that have returned are gone with the next step.
Retired(f, none) == [g \in Goroutines |-> IF pc[g] = "done" THEN none ELSE f[g]]

Retire ==
    /\ pc' = Retired(pc, "idle")
    /\ total' = Retired(total, 0)
    /\ accepts' = Retired(accepts, 0)
    /\ dr' = Retired(dr, NoRate)
    /\ ret' = Retired(ret, "none")
    /\ held' = held

\* The clock moves on by one tick; buckets rotate with it.
Tick ==
    /\ now < MaxNow
    /\ now' = now + 1
    /\ idle' = IF (idle + 1) \div stat.dur >= stat.size THEN Span(stat) ELSE idle + 1
    /\ Retire
    /\ UNCHANGED <<stat, rnd, config, seeded, marks>>

\* MarkSuccess recording the success as a failure.
MarkSuccessAddsZero ==
    /\ nSuccess + nFailed < MaxMarks
    /\ stat' = Add(stat, now, 0)
    /\ nSuccess' = nSuccess + 1
    /\ idle' = 0
    /\ Retire
    /\ UNCHANGED <<rnd, config, now, seeded, nFailed>>

\* MarkSuccess(): b.stat.Add(1)
MarkSuccess ==
    /\ nSuccess + nFailed < MaxMarks
    /\ stat' = Add(stat, now, 1)
    /\ nSuccess' = nSuccess + 1
    /\ idle' = 0
    /\ Retire
    /\ UNCHANGED <<rnd, config, now, seeded, nFailed>>

\* MarkFailed recording the failure with Add(1).
MarkFailedAddsOne ==
    /\ nSuccess + nFailed < MaxMarks
    /\ stat' = Add(stat, now, 1)
    /\ nFailed' = nFailed + 1
    /\ idle' = 0
    /\ Retire
    /\ UNCHANGED <<rnd, config, now, seeded, nSuccess>>

\* MarkFailed(): b.stat.Add(0)
MarkFailed ==
    /\ nSuccess + nFailed < MaxMarks
    /\ stat' = Add(stat, now, 0)
    /\ nFailed' = nFailed + 1
    /\ idle' = 0
    /\ Retire
    /\ UNCHANGED <<rnd, config, now, seeded, nSuccess>>

\* b.rnd.Get(): a resting generator, or a new one when the pool is empty.
PoolGet == IF rnd = {} THEN {PoolNew(seeded + 1)} ELSE rnd

\* rnd := b.rnd.Get().(*rand.Rand): the type assertion holds for a *rand.Rand.
IsRand(r) == r.kind = "*rand.Rand"

\* Allow recording the request it decides on as a failure.
AllowKeepsRecording ==
    /\ stat' = Add(stat, now, 0)
    /\ UNCHANGED <<config, now, marks, idle>>

\* What Allow leaves alone: the window, the configuration, the clock.
AllowKeeps == UNCHANGED <<stat, config, now, marks, idle>>

\* Allow() of a single-threaded caller, start to return, the sampler
\* drawing sample if it is asked.
Allow(sample) ==
    LET s == summary(stat, now)
        g == Main
    IN  /\ pc[g] \in {"idle", "done"}
        /\ total' = [total EXCEPT ![g] = s.total]
        /\ accepts' = [accepts EXCEPT ![g] = s.success]
        /\ pc' = [pc EXCEPT ![g] = "done"]
        /\ held' = held
        /\ IF Guard(s.success, s.total)
           THEN /\ ret' = [ret EXCEPT ![g] = "nil"]
                /\ dr' = [dr EXCEPT ![g] = NoRate]
                /\ UNCHANGED <<rnd, seeded>>
           ELSE /\ dr' = [dr EXCEPT ![g] = DropRate(s.success, s.total)]
                /\ \E r \in PoolGet :
                     /\ seeded' = IF rnd = {} THEN seeded + 1 ELSE seeded
                     /\ IF IsRand(r)
                        THEN /\ rnd' = rnd \cup {r}
                             /\ ret' = [ret EXCEPT ![g] =
                                    Verdict(s.success, s.total, sample)]
                        ELSE /\ rnd' = rnd \ {r}
                             /\ ret' = [ret EXCEPT ![g] = "panic"]
        /\ AllowKeeps

Next ==
    \/ Tick
    \/ MarkSuccess
    \/ MarkFailed
    \/ \E sample \in Samples : Allow(sample)

Spec == Init /\ [][Next]_vars

\* ------------------------------------------------- Allow, line by line

\* A step of goroutine g's Allow: the frames of the calls that have returned
\* are gone, and g's frame moves on.
Step(f, none, g, v) == [Retired(f, none) EXCEPT ![g] = v]

\* total = b.stat.Aggregation(0).Count(): the first of summary's two reads.
AllowCount(g) ==
    /\ pc[g] \in {"idle", "done"}
    /\ pc' = Step(pc, "idle", g, "sum")
    /\ total' = Step(total, 0, g, Count(stat, now))
    /\ accepts' = Step(accepts, 0, g, 0)
    /\ dr' = Step(dr, NoRate, g, NoRate)
    /\ ret' = Step(ret, "none", g, "none")
    /\ UNCHANGED <<stat, rnd, config, now, seeded, held, marks, idle>>

\* success = b.stat.Aggregation(0).Sum(): the second read; then the guard,
\* and dr when the guard does not admit.
AllowSum(g) ==
    LET a == Sum(stat, now)
    IN  /\ pc[g] = "sum"
        /\ total' = Retired(total, 0)
        /\ accepts' = Step(accepts, 0, g, a)
        /\ IF Guard(a, total[g])
           THEN /\ pc' = Step(pc, "idle", g, "done")
                /\ ret' = Step(ret, "none", g, "nil")
                /\ dr' = Retired(dr, NoRate)
           ELSE /\ pc' = Step(pc, "idle", g, "get")
                /\ dr' = Step(dr, NoRate, g, DropRate(a, total[g]))
                /\ ret' = Retired(ret, "none")
        /\ UNCHANGED <<stat, rnd, config, now, seeded, held, marks, idle>>

\* rnd := b.rnd.Get().(*rand.Rand)
AllowGet(g) ==
    /\ pc[g] = "get"
    /\ total' = Retired(total, 0)
    /\ accepts' = Retired(accepts, 0)
    /\ dr' = Retired(dr, NoRate)
    /\ \E r \in PoolGet :
         /\ rnd' = rnd \ {r}
         /\ seeded' = IF rnd = {} THEN seeded + 1 ELSE seeded
         /\ IF IsRand(r)
            THEN /\ held' = [held EXCEPT ![g] = r]
                 /\ pc' = Step(pc, "idle", g, "drop")
                 /\ ret' = Retired(ret, "none")
            ELSE /\ held' = held
                 /\ pc' = Step(pc, "idle", g, "done")
                 /\ ret' = Step(ret, "none", g, "panic")
    /\ UNCHANGED <<stat, config, now, marks, idle>>

\* An injected drop policy that panics when it is called.
DropProbaPanics == dropProba = "panics"

\* What Allow ends with once b.dropProba(rnd, dr) has been called.
DropOutcome(sample, proba) ==
    IF DropProbaPanics THEN "panic"
    ELSE IF DropProba(sample, proba) THEN "ErrNotAllowed" ELSE "nil"

\* AllowDrop with b.rnd.Put(rnd) after the call of the policy, not deferred:
\* a panic of the policy skips it.
AllowDropPutNotDeferred(g, sample) ==
    /\ pc[g] = "drop"
    /\ total' = Retired(total, 0)
    /\ accepts' = Retired(accepts, 0)
    /\ dr' = Retired(dr, NoRate)
    /\ ret' = Step(ret, "none", g, DropOutcome(sample, dr[g]))
    /\ rnd' = IF DropProbaPanics THEN rnd ELSE rnd \cup {held[g]}
    /\ held' = [held EXCEPT ![g] = NoRand]
    /\ pc' = Step(pc, "idle", g, "done")
    /\ UNCHANGED <<stat, config, now, seeded, marks, idle>>

\* drop := b.dropProba(rnd, dr); the deferred b.rnd.Put(rnd), which runs on
\* return and on panic alike; return.
AllowDrop(g, sample) ==
    /\ pc[g] = "drop"
    /\ total' = Retired(total, 0)
    /\ accepts' = Retired(accepts, 0)
    /\ dr' = Retired(dr, NoRate)
    /\ ret' = Step(ret, "none", g, DropOutcome(sample, dr[g]))
    /\ rnd' = rnd \cup {held[g]}
    /\ held' = [held EXCEPT ![g] = NoRand]
    /\ pc' = Step(pc, "idle", g, "done")
    /\ UNCHANGED <<stat, config, now, seeded, marks, idle>>

\* Goroutines call Allow, MarkSuccess and MarkFailed with no lock of their
\* own: Allow's lines interleave with the calls of the others and with the
\* clock.
ConcNext ==
    \/ (now < ConcMaxNow /\ Tick)
    \/ (nSuccess + nFailed < ConcMaxMarks /\ MarkSuccess)
    \/ (nSuccess + nFailed < ConcMaxMarks /\ MarkFailed)
    \/ \E g \in Goroutines : AllowCount(g)
    \/ \E g \in Goroutines : AllowSum(g)
    \/ \E g \in Goroutines : AllowGet(g)
    \/ \E g \in Goroutines, sample \in Samples : AllowDrop(g, sample)

\* The policies of the concurrent runs: the one New installs, and an
\* injected one that panics.
ConcPolicies == {"default", "panics"}

\* The breakers the concurrent runs start from: New with the default isr and
\* one-tick buckets.
ConcInit ==
    /\ InitOver(ConcPolicies)
    /\ isr = DefaultOptions.isr
    /\ stat.dur = 1

ConcSpec == ConcInit /\ [][ConcNext]_vars

\* The least value the sampler draws.
LeastSample == [num |-> 0, den |-> SampleDen]

\* A fair sampler: among the calls of Allow, one that draws the least
\* sample comes sooner or later.
FairSampler == WF_vars(Allow(LeastSample))

\* The breaker as New builds it, with the policy New installs.
LiveInit == Init /\ dropProba = "default"

LiveSpec == LiveInit /\ [][Next]_vars /\ FairSampler

\* MarkSuccess recording the success with Add(0).
SuccessRunAddsZero ==
    /\ nSuccess < MaxSuccessRun
    /\ stat' = Add(stat, now, 0)
    /\ nSuccess' = nSuccess + 1
    /\ idle' = 0
    /\ Retire
    /\ UNCHANGED <<rnd, config, now, seeded, nFailed>>

\* MarkSuccess(): b.stat.Add(1), for callers that keep succeeding after the
\* failures have stopped.
SuccessRun ==
    /\ nSuccess < MaxSuccessRun
    /\ stat' = Add(stat, now, 1)
    /\ nSuccess' = nSuccess + 1
    /\ idle' = 0
    /\ Retire
    /\ UNCHANGED <<rnd, config, now, seeded, nFailed>>

\* Failures and successes in any order at first, then successes only:
\* MarkFailed stops at MaxMarks marks, the run of successes goes on.
RecoverNext ==
    \/ Tick
    \/ MarkFailed
    \/ SuccessRun
    \/ \E sample \in Samples : Allow(sample)

\* The breaker with the policy New installs and a target rate below 1.
RecoverInit == LiveInit /\ isr.num < isr.den

\* The successes keep coming.
FairSuccess == WF_vars(SuccessRun)

RecoverSpec == RecoverInit /\ [][RecoverNext]_vars /\ FairSuccess

\* The lists of at most MaxOptions options.
RECURSIVE OptionLists(_)
OptionLists(n) ==
    IF n = 0 THEN {<<>>}
    ELSE OptionLists(n - 1)
            \cup {Append(fs, f) : fs \in OptionLists(n - 1), f \in Options}

\* New with any list of options, none included.
ConfigInit == \E fs \in OptionLists(MaxOptions) : NewOver(fs, "default")

\* A short run of every breaker New can build.
ConfigNext ==
    \/ (now < ConfigMaxNow /\ Tick)
    \/ (nSuccess + nFailed < ConfigMaxMarks /\ MarkSuccess)
    \/ (nSuccess + nFailed < ConfigMaxMarks /\ MarkFailed)
    \/ \E sample \in Samples : Allow(sample)

ConfigSpec == ConfigInit /\ [][ConfigNext]_vars

\* ----------------------------------------------------------- the claims

\* Allow has just returned to the single-threaded caller: its frame is the
\* one of this state, and nothing has touched the window since it read it.
Returned == pc[Main] = "done"

\* The counts of the window at this instant.
Success == summary(stat, now).success
Total == summary(stat, now).total

\* The window holds enough requests, and too few of them succeeded.
Engaged == Total >= ignoreRequests /\ Success * isr.den < Total * isr.num

\* C1: whenever the window's total count is below ignoreRequests, and so
\* after at most ignoreRequests-1 MarkFailed calls and no MarkSuccess, Allow
\* returns nil, whatever the success count, the sample and the drop policy.
C1_LowVolumeAdmits ==
    /\ (Returned /\ Total < ignoreRequests) => ret[Main] = "nil"
    /\ (Returned /\ nSuccess = 0 /\ nFailed < ignoreRequests) => ret[Main] = "nil"

C1_Witness ==
    /\ Returned
    /\ ignoreRequests = 2 /\ nFailed = 1 /\ nSuccess = 0 /\ Total = 1
    /\ dropProba = "alwaysTrue"
    /\ ret[Main] = "nil"

\* C2: under the default drop policy, with total > ignoreRequests and
\* success/total >= isr, Allow returns nil for every sample; a rejection
\* happens only when the success rate is below isr.
C2_HealthyAdmits ==
    /\ (Returned /\ dropProba = "default" /\ Total > ignoreRequests
            /\ Success * isr.den >= Total * isr.num) => ret[Main] = "nil"
    /\ (Returned /\ dropProba = "default" /\ ret[Main] = "ErrNotAllowed")
            => Success * isr.den < Total * isr.num

\* The boundary success/total = isr: the guard lets the call through to the
\* sampler, and dr = 0 admits it.
C2_Witness ==
    /\ Returned /\ dropProba = "default"
    /\ Total > ignoreRequests /\ Total > 0
    /\ Success * isr.den = Total * isr.num
    /\ rnd # {}
    /\ dr[Main].num = 0
    /\ ret[Main] = "nil"

\* C3: once the window holds total >= ignoreRequests with success/total <
\* isr, the drop rate is strictly positive, and under the default policy
\* with a fair sampler repeated Allow calls lead to the not-allowed error
\* (unless the window leaves that regime first).
C3_EngagesUnderFailure ==
    /\ [](Engaged => DropRate(Success, Total).num > 0)
    /\ (Engaged /\ dropProba = "default")
          ~> (~Engaged \/ (Returned /\ ret[Main] = "ErrNotAllowed"))

C3_Witness ==
    /\ Returned /\ dropProba = "default"
    /\ nSuccess = 0 /\ nFailed = ignoreRequests /\ ignoreRequests = 2
    /\ Engaged
    /\ ret[Main] = "ErrNotAllowed"

\* C4 as stated: after a full window span with no MarkSuccess/MarkFailed,
\* summary returns (0, 0) and Allow returns nil.
C4_RecoveryAsStated ==
    idle >= Span(stat) =>
        /\ Success = 0 /\ Total = 0
        /\ Returned => ret[Main] = "nil"

\* C4 amended: after a full window span with no MarkSuccess/MarkFailed,
\* summary returns (0, 0), and Allow returns nil when ignoreRequests >= 1 or
\* the drop policy does not drop at probability 0.
C4_RecoveryByExpiry ==
    idle >= Span(stat) =>
        /\ Success = 0 /\ Total = 0
        /\ (Returned /\ (ignoreRequests >= 1 \/ dropProba # "alwaysTrue"))
              => ret[Main] = "nil"

\* The window rejected, then sat idle for its whole span, and admits again.
C4_Witness ==
    /\ idle >= Span(stat)
    /\ nFailed >= 2 /\ nSuccess = 0 /\ nFailed >= ignoreRequests
    /\ dropProba = "default"
    /\ Returned /\ ret[Main] = "nil"
    /\ Total = 0

\* C5: in every reachable state 0 <= dr < 1, so under the default policy
\* some sample in [0,1) makes Allow return nil.
C5_NeverFullCutOff ==
    /\ DropRate(Success, Total).num >= 0
    /\ DropRate(Success, Total).num < DropRate(Success, Total).den
    /\ Returned => (dr[Main].num >= 0 /\ dr[Main].num < dr[Main].den)
    /\ dropProba = "default" =>
          \E sample \in Samples : Verdict(Success, Total, sample) = "nil"

\* Every request of the window failed, dr is at its largest, and Allow
\* still admitted.
C5_Witness ==
    /\ Returned /\ dropProba = "default"
    /\ Success = 0 /\ Total = MaxMarks
    /\ dr[Main].num * (MaxMarks + 1) = MaxMarks * dr[Main].den
    /\ ret[Main] = "nil"

C7_AllowReadOnly ==
    [][ pc'[Main] = "done" =>
          /\ stat' = stat
          /\ summary(stat', now') = summary(stat, now)
          /\ isr' = isr /\ ignoreRequests' = ignoreRequests
          /\ dropProba' = dropProba
          /\ nSuccess' = nSuccess /\ nFailed' = nFailed
      ]_vars

C7_Witness ==
    /\ Returned /\ ret[Main] = "ErrNotAllowed"
    /\ Total = nSuccess + nFailed /\ Total > 0
    /\ total[Main] = Total /\ accepts[Main] = Success

\* C8: every Allow ends with nil or the not-allowed error, never with a
\* fault, and in every state Allow, MarkSuccess and MarkFailed can be called.
C8_ErrorTaxonomy ==
    /\ \A g \in Goroutines : ret[g] \in {"none", "nil", "ErrNotAllowed"}
    /\ Returned => ret[Main] \in {"nil", "ErrNotAllowed"}
    /\ ENABLED (\E sample \in Samples : Allow(sample))
    /\ nSuccess + nFailed < MaxMarks => (ENABLED MarkSuccess /\ ENABLED MarkFailed)

\* Both outcomes have been through the sampler pool.
C8_Witness ==
    /\ Returned /\ rnd # {} /\ seeded = 1
    /\ dr[Main].num > 0
    /\ ret[Main] = "nil"
    /\ dropProba = "default"

\* C9: under a constant drop policy the result of Allow does not depend on
\* the sample: always-false gives nil in every state, and always-true gives
\* the same result for the same counts.
C9_ConstantPolicyDeterministic ==
    Returned =>
        /\ dropProba = "alwaysFalse" => ret[Main] = "nil"
        /\ dropProba # "default" =>
              \A sample \in Samples :
                  Verdict(accepts[Main], total[Main], sample) = ret[Main]

\* Only failures in the window, the sampler consulted, always-false admits.
C9_Witness ==
    /\ Returned /\ dropProba = "alwaysFalse"
    /\ nSuccess = 0 /\ Total = MaxMarks
    /\ rnd # {} /\ dr[Main].num > 0
    /\ ret[Main] = "nil"

\* C10: the (success, total) pair Allow decides on satisfies
\* 0 <= success <= total, also when the calls of other goroutines and the
\* clock interleave with the two reads.
C10_CountsOrdered ==
    \A g \in Goroutines :
        pc[g] \in {"get", "drop", "done"} =>
            (0 <= accepts[g] /\ accepts[g] <= total[g])

\* The generators the pool's New has made, and those the Allow calls in
\* flight hold.
Seeded == {PoolNew(n) : n \in 1..seeded}
Borrowed == {held[g] : g \in {h \in Goroutines : held[h] # NoRand}}

\* C11: an Allow that reaches the sampling step borrows exactly one
\* generator, no generator is held by two calls in flight, every borrowed
\* generator is back in the pool when its Allow returns (admitted, rejected
\* or with the policy panicking), and an Allow the guard admits borrows none.
C11_PoolDiscipline ==
    [][ /\ \A g \in Goroutines : (pc'[g] = "drop") <=> (held'[g] # NoRand)
        /\ \A g, h \in Goroutines : (g # h /\ held'[g] # NoRand) => held'[g] # held'[h]
        /\ Borrowed' \cap rnd' = {}
        /\ Borrowed' \cup rnd' = Seeded'
        /\ \A g \in Goroutines :
              /\ (pc[g] = "get" /\ pc'[g] = "drop") =>
                    /\ Borrowed' = Borrowed \cup {held'[g]}
                    /\ held'[g] \notin Borrowed
              /\ (pc[g] = "drop" /\ pc'[g] = "done") =>
                    /\ held[g] \in rnd'
                    /\ ret'[g] \in {"nil", "ErrNotAllowed", "panic"}
              /\ (pc[g] = "sum" /\ pc'[g] = "done") =>
                    /\ ret'[g] = "nil"
                    /\ UNCHANGED <<rnd, seeded, held>>
      ]_vars

\* One call has returned from a panic of the policy with its generator back
\* in the pool, while another call holds a second generator.
C11_Witness ==
    \E g, h \in Goroutines :
        /\ g # h
        /\ pc[g] = "done" /\ ret[g] = "panic"
        /\ pc[h] = "drop" /\ held[h] \notin rnd
        /\ seeded = 2 /\ Cardinality(rnd) = 1

\* The success rate of the window is at or above isr.
Recovered == Success * isr.den >= Total * isr.num

\* Allow returns nil at this instant, whatever the sampler draws.
AdmitsAll ==
    LET s == summary(stat, now)
    IN  {sample \in Samples : Verdict(s.success, s.total, sample) # "nil"} = {}

\* The breaker is out of the rejecting regime with the success rate back at
\* isr, and Allow returns nil whatever the sampler draws.
Restored == ~Engaged /\ Recovered /\ AdmitsAll

\* C12: with isr < 1 and the default policy, from every state where Allow
\* can reject, successes recorded with no failure in between lead to a state
\* where the success rate is back at isr and Allow returns nil for every
\* sample; with the rate at isr one more success keeps it there, and every
\* Allow that returns there returns nil.
C12_RecoveryBySuccesses ==
    /\ Engaged ~> Restored
    /\ [](Recovered =>
            LET s == summary(Add(stat, now, 1), now)
            IN  /\ s.success * isr.den >= s.total * isr.num
                /\ {sample \in Samples :
                       Verdict(s.success, s.total, sample) # "nil"} = {})
    /\ [](Recovered => AdmitsAll)
    /\ []((Returned /\ Recovered) => ret[Main] = "nil")

\* As many failures as the bound allows have been outweighed by later
\* successes, and Allow has returned nil on the recovered window.
C12_Witness ==
    /\ nFailed = MaxMarks /\ Total = nFailed + nSuccess
    /\ Total >= ignoreRequests /\ ignoreRequests > 0
    /\ Success * isr.den = Total * isr.num
    /\ Returned /\ ret[Main] = "nil" /\ dr[Main].num = 0

\* The fields of the options struct.
OptionFields == {"isr", "ignoreRequests", "buckets", "requireBucketDuration"}

\* What the field f of the options is given as: the value of the last
\* option that names it, and the default when no option does.
Given(f) ==
    LET set == {i \in 1..Len(opts) : opts[i].field = f}
    IN  IF set = {} THEN DefaultOptions[f]
        ELSE opts[CHOOSE i \in set : \A j \in set : j <= i].value

\* C13: New starts from the defaults and applies the options in order, so
\* that each field holds what the last option naming it gives and the
\* default when none does; a setter writes its own field and no other; the
\* breaker's isr and ignoreRequests are the ones of the options, and no
\* Allow, MarkSuccess or MarkFailed (nor the clock) changes them.
C13_Configuration ==
    [][ /\ \A f \in OptionFields : opt'[f] = Given(f)'
        /\ \A o \in Options, f \in OptionFields :
              ApplyOption(opt, o)[f] = IF f = o.field THEN o.value ELSE opt[f]
        /\ isr' = Given("isr")' /\ ignoreRequests' = Given("ignoreRequests")'
        /\ stat'.size = Given("buckets")'
        /\ stat'.dur = Given("requireBucketDuration")'
        /\ UNCHANGED <<isr, ignoreRequests, dropProba, opts, opt>>
      ]_vars

\* New was given ignoreRequests twice and nothing else: the later value is
\* in force, the other fields are the defaults, and a MarkFailed with an
\* Allow after it has left them so.
C13_Witness ==
    /\ opts = <<[field |-> "ignoreRequests", value |-> 0],
                [field |-> "ignoreRequests", value |-> 2]>>
    /\ ignoreRequests = 2 /\ isr = DefaultOptions.isr
    /\ stat.size = DefaultOptions.buckets
    /\ stat.dur = DefaultOptions.requireBucketDuration
    /\ nFailed = 1 /\ Returned /\ ret[Main] = "nil"

\* C14 as stated: with the success rate at or above isr, the boundary
\* success/isr = total included, Allow returns nil whatever the drop policy.
C14_AdmitsAtTarget ==
    (Returned /\ Success * isr.den >= Total * isr.num) => ret[Main] = "nil"

\* A step of Allow, start to return, in the single-threaded runs.
AllowStep == pc'[Main] = "done"

\* C14: with the success rate strictly above isr, or the total below
\* ignoreRequests, Allow returns nil through the guard, the pool and the
\* drop policy left alone, whatever policy is installed; at the boundary
\* success/isr = total with total >= ignoreRequests the guard does not admit,
\* the policy is asked with dr = 0, and the call is admitted by the default
\* policy and rejected by an always-drop one.
C14_GuardStrictlyAboveTarget ==
    [][AllowStep =>
        /\ (Success * isr.den > Total * isr.num \/ Total < ignoreRequests) =>
              /\ ret'[Main] = "nil"
              /\ UNCHANGED <<rnd, seeded>>
        /\ (Success * isr.den = Total * isr.num /\ Total >= ignoreRequests) =>
              /\ dr'[Main] = DropRate(Success, Total) /\ dr'[Main].num = 0
              /\ rnd' # {}
              /\ ret'[Main] = IF dropProba = "alwaysTrue" THEN "ErrNotAllowed" ELSE "nil"
      ]_vars

\* At the target rate exactly, with requests in the window, an always-drop
\* policy has rejected the call.
C14_Witness ==
    /\ Returned /\ dropProba = "alwaysTrue"
    /\ Total > 0 /\ Total >= ignoreRequests
    /\ Success * isr.den = Total * isr.num
    /\ dr[Main].num = 0 /\ rnd # {}
    /\ ret[Main] = "ErrNotAllowed"

\* x <= y and x < y for the fractions x and y, denominators positive.
RateLeq(x, y) == x.num * y.den <= y.num * x.den
RateLess(x, y) == x.num * y.den < y.num * x.den

\* C15: for the total of the window, when it is at least ignoreRequests, dr
\* is 0 at the threshold success = isr x total and above it, positive below
\* it, and strictly larger for every smaller success count below it; and in
\* such a state one more MarkFailed never lowers dr and one more MarkSuccess
\* never raises it.
C15_DropRateMonotone ==
    [][LET t == Total
           s == Success
           d == DropRate(s, t)
       IN  t >= ignoreRequests =>
             /\ \A a, b \in 0..t :
                   /\ (a * isr.den >= t * isr.num) => DropRate(a, t).num = 0
                   /\ (a * isr.den < t * isr.num) => DropRate(a, t).num > 0
                   /\ (a < b) => RateLeq(DropRate(b, t), DropRate(a, t))
                   /\ (a < b /\ a * isr.den < t * isr.num) =>
                         RateLess(DropRate(b, t), DropRate(a, t))
             /\ (nFailed' = nFailed + 1) =>
                   /\ Total' = t + 1 /\ Success' = s
                   /\ RateLeq(d, DropRate(s, t + 1))
             /\ (nSuccess' = nSuccess + 1) =>
                   /\ Total' = t + 1 /\ Success' = s + 1
                   /\ RateLeq(DropRate(s + 1, t + 1), d)
      ]_vars

\* A window of one success and two failures, above the floor and below the
\* target rate: the second failure has raised dr from 0 to 1/4 or more.
C15_Witness ==
    /\ nSuccess = 1 /\ nFailed = 2 /\ Total = 3 /\ Success = 1
    /\ Total >= ignoreRequests
    /\ isr = DefaultOptions.isr
    /\ DropRate(Success, Total).num > 0
    /\ DropRate(Success, Total - 1).num = 0

\* C16 as stated: when Allow returns nil for every sample, it still does
\* after one more MarkSuccess.
C16_SuccessNeverStricter ==
    [][(AdmitsAll /\ nSuccess' = nSuccess + 1) => AdmitsAll']_vars

\* C16: when Allow returns nil for every sample and the total is at least
\* ignoreRequests, or stays below it after one more request, Allow still
\* returns nil for every sample after one more MarkSuccess; the success that
\* lifts the total from ignoreRequests - 1 to ignoreRequests is left out.
C16_SuccessNeverStricterOffTheFloor ==
    [][(/\ AdmitsAll
        /\ nSuccess' = nSuccess + 1
        /\ (Total >= ignoreRequests \/ Total + 1 < ignoreRequests))
          => (AdmitsAll' /\ Total' = Total + 1 /\ Success' = Success + 1)]_vars

\* Above the floor, a failure has been outweighed by two successes, and
\* Allow has returned nil under the default policy.
C16_Witness ==
    /\ dropProba = "default" /\ ignoreRequests = 2
    /\ nSuccess = 2 /\ nFailed = 1 /\ Total = 3 /\ Success = 2
    /\ isr.num < isr.den
    /\ AdmitsAll
    /\ Returned /\ ret[Main] = "nil"

\* C17: an Allow whose reads interleave with MarkSuccess, MarkFailed and
\* bucket rotation returns the not-allowed error only if at some instant of
\* the call the window held total >= ignoreRequests and success/total < isr.
\* A window with success/total < isr <= 1 holds a failure, so a failure has
\* been recorded by then: with no MarkFailed so far, no Allow returns the
\* error under the default policy.
C17_NoSpuriousRejection ==
    \A g \in Goroutines :
        (dropProba = "default" /\ pc[g] = "done" /\ ret[g] = "ErrNotAllowed")
            => nFailed > 0

=============================================================================
